---- MODULE Spec2Model ----
(***************************************************************************)
(* react-formbuilder: the control registry / builder (FormBuilder) and the *)
(* form runtime (the Form component returned by createForm), modelled as a *)
(* state machine over a JavaScript object heap.  Object identity matters   *)
(* in this code (the registry is captured by reference, the model is       *)
(* cloned one level deep only), so every object lives in `heap` and is     *)
(* referred to by its address.                                             *)
(***************************************************************************)
EXTENDS Integers, Sequences, FiniteSets, TLC

\* ------------------------------------------------------------------ bounds
\* Number of onChange events (setValue calls) in one behaviour.
MaxEdits == 2
\* Number of registerControl calls in one behaviour.
MaxRegister == 3

\* ------------------------------------------------------------- JS values
Undefined == [k |-> "undefined"]
Null == [k |-> "null"]
Str(s) == [k |-> "string", s |-> s]
Num(n) == [k |-> "number", n |-> n]
Ref(id) == [k |-> "object", id |-> id]
Fn(name) == [k |-> "function", name |-> name]

IsRef(v) == v.k = "object"

\* An object is a function from its own property names to values; {} is the
\* function with the empty domain.
EmptyObject == << >>

Has(obj, key) == key \in DOMAIN obj

\* obj[key] = v, for an existing or a new property.
SetProp(obj, key, v) == [x \in (DOMAIN obj) \cup {key} |-> IF x = key THEN v ELSE obj[x]]

\* Map.prototype.delete / removal of a property.
DelProp(obj, key) == [x \in (DOMAIN obj) \ {key} |-> obj[x]]

\* obj[key] as JavaScript reads it: undefined for a missing property.
GetProp(obj, key) == IF Has(obj, key) THEN obj[key] ELSE Undefined

\* The contents of whatever v refers to, followed through every nested object
\* (what a deep comparison or JSON.stringify of v would see).
RECURSIVE Deep(_, _)
Deep(h, v) ==
    IF IsRef(v)
        THEN [key \in DOMAIN h[v.id] |-> Deep(h, h[v.id][key])]
        ELSE v

Bool(b) == [k |-> "boolean", b |-> b]

\* ------------------------------------------------------ field descriptors
\* A FormField.  `value` is an accessor function; its parameter name and the
\* chain of properties it reads are what its source text is made of.  The
\* descriptor's identity (the Map key of `setters` and `errors`) is `id`.
\* `validate`, `readonly` and `visible` are Undefined when the descriptor
\* leaves them out.  `form` is how the accessor is written: an arrow function
\* or a `function (p) { return p.a; }` expression.
FirstName ==
    [id |-> "firstName", type |-> "text", label |-> Str("First Name"),
     form |-> "arrow", param |-> "model", props |-> <<"firstName">>,
     validate |-> Fn("required"), readonly |-> Undefined, visible |-> Undefined]

Age ==
    [id |-> "age", type |-> "number", label |-> Fn("ageLabel"),
     form |-> "arrow", param |-> "model", props |-> <<"age">>,
     validate |-> Undefined, readonly |-> Bool(FALSE), visible |-> Bool(TRUE)]

AB ==
    [id |-> "ab", type |-> "text", label |-> Str("A.B"),
     form |-> "arrow", param |-> "m", props |-> <<"a", "b">>,
     validate |-> Undefined, readonly |-> Undefined, visible |-> Undefined]

CD ==
    [id |-> "cd", type |-> "text", label |-> Str("C.D"),
     form |-> "arrow", param |-> "m", props |-> <<"c", "d">>,
     validate |-> Fn("required"), readonly |-> Fn("isLocked"), visible |-> Fn("showDetails")]

Secret ==
    [id |-> "secret", type |-> "text", label |-> Str("Secret"),
     form |-> "arrow", param |-> "m", props |-> <<"a", "b">>,
     validate |-> Undefined, readonly |-> Undefined, visible |-> Bool(FALSE)]

\* A descriptor an application pushes onto a section after the form mounted.
Nickname ==
    [id |-> "nickname", type |-> "text", label |-> Str("Nickname"),
     form |-> "arrow", param |-> "model", props |-> <<"firstName">>,
     validate |-> Fn("required"), readonly |-> Undefined, visible |-> Undefined]

\* An accessor written as a function expression: its text holds no arrow.
Legacy ==
    [id |-> "legacy", type |-> "text", label |-> Str("Legacy"),
     form |-> "function", param |-> "m", props |-> <<"a", "b">>,
     validate |-> Undefined, readonly |-> Undefined, visible |-> Undefined]

\* An arrow accessor that is not a property access: `m => m`.
Whole ==
    [id |-> "whole", type |-> "text", label |-> Str("Whole"),
     form |-> "arrow", param |-> "m", props |-> << >>,
     validate |-> Undefined, readonly |-> Undefined, visible |-> Undefined]

\* The `sections` array handed to createForm.
Sections ==
    << [title |-> "Section 1", fields |-> <<FirstName, Age>>],
       [title |-> "Nested", fields |-> <<AB, CD, Secret>>] >>

\* Other arrays an application may hand to createForm.
SectionsLegacy == << [title |-> "Legacy", fields |-> <<Age, Legacy>>] >>
SectionsWhole == << [title |-> "Whole", fields |-> <<Whole, Age>>] >>
SectionsChoices == {Sections, SectionsLegacy, SectionsWhole}

\* sections[0].fields.push(field)
PushField(secs, field) == [secs EXCEPT ![1].fields = Append(@, field)]

RECURSIVE Flatten(_)
Flatten(secs) ==
    IF secs = << >> THEN << >> ELSE Head(secs).fields \o Flatten(Tail(secs))

AllFields == Flatten(Sections)

FieldIds == {AllFields[i].id : i \in 1..Len(AllFields)}

\* Every descriptor the application has.
Descriptors == {FirstName, Age, AB, CD, Secret, Nickname, Legacy, Whole}

FieldById(id) == CHOOSE f \in Descriptors : f.id = id

\* ------------------------------------------------- accessor source text
\* Function.prototype.toString of an arrow accessor `p => p.a.b`, as tokens:
\* identifiers, the arrow, the dot and blanks.
RECURSIVE Dotted(_)
Dotted(props) ==
    IF props = << >> THEN << >> ELSE <<".", Head(props)>> \o Dotted(Tail(props))

ValueToString(field) ==
    IF field.form = "arrow"
        THEN <<field.param, " ", "=>", " ", field.param>> \o Dotted(field.props)
        ELSE <<"function", " ", "(", field.param, ")", " ", "{", " ", "return", " ",
               field.param>> \o Dotted(field.props) \o <<";", " ", "}">>

\* String.prototype.split(sep): the pieces between the separators, at least one.
RECURSIVE SplitFrom(_, _, _)
SplitFrom(text, sep, cur) ==
    IF text = << >> THEN <<cur>>
    ELSE IF Head(text) = sep THEN <<cur>> \o SplitFrom(Tail(text), sep, << >>)
    ELSE SplitFrom(Tail(text), sep, Append(cur, Head(text)))

Split(text, sep) == SplitFrom(text, sep, << >>)

\* String.prototype.trim.
RECURSIVE TrimLeft(_)
TrimLeft(text) ==
    IF text # << >> /\ Head(text) = " " THEN TrimLeft(Tail(text)) ELSE text

RECURSIVE TrimRight(_)
TrimRight(text) ==
    IF text # << >> /\ text[Len(text)] = " "
        THEN TrimRight(SubSeq(text, 1, Len(text) - 1))
        ELSE text

Trim(text) == TrimRight(TrimLeft(text))

\* The property name a piece of the split text spells.
SegName(seg) == IF seg = << >> THEN "" ELSE seg[1]

\* DerivePath that reads a missing second piece as the empty text instead of
\* throwing.
DerivePathLenient(field) ==
    LET parts == Split(ValueToString(field), "=>")
        segs == Split(Trim(IF Len(parts) < 2 THEN << >> ELSE parts[2]), ".")
        names == [i \in 1..Len(segs) |-> SegName(segs[i])]
    IN  [threw |-> FALSE,
         path |-> SubSeq(names, 1, Len(names) - 1),
         fieldName |-> names[Len(names)]]

\* const path = field.value.toString().split('=>')[1].trim().split('.');
\* const fieldName = path.pop()!;
\* `threw` is the TypeError of calling .trim() on undefined when the text holds
\* no arrow.
DerivePath(field) ==
    LET parts == Split(ValueToString(field), "=>")
    IN  IF Len(parts) < 2
            THEN [threw |-> TRUE, path |-> << >>, fieldName |-> ""]
            ELSE LET segs == Split(Trim(parts[2]), ".")
                     names == [i \in 1..Len(segs) |-> SegName(segs[i])]
                 IN  [threw |-> FALSE,
                      path |-> SubSeq(names, 1, Len(names) - 1),
                      fieldName |-> names[Len(names)]]

\* ------------------------------------------------------ accessor calls
\* field.value(model): the property chain read from the argument.  Reading a
\* property of undefined or null throws a TypeError; reading one of a
\* primitive gives undefined.
RECURSIVE ReadChain(_, _, _)
ReadChain(h, v, props) ==
    IF props = << >> THEN [threw |-> FALSE, v |-> v]
    ELSE IF v.k \in {"undefined", "null"} THEN [threw |-> TRUE, v |-> Undefined]
    ELSE IF IsRef(v) THEN ReadChain(h, GetProp(h[v.id], Head(props)), Tail(props))
    ELSE ReadChain(h, Undefined, Tail(props))

FieldValue(field, h, root) == ReadChain(h, Ref(root), field.props)

\* field.validate(value): the validators the sections use.
\*   required: v => v.length > 0 ? null : "required"
CallValidate(field, value) ==
    IF value.k = "string" /\ value.s # "" THEN Null ELSE Str("required")

\* --------------------------------------------------------- model write
\* Descend with the `key in acc` test lost: every key gets a new container.
RECURSIVE DescendAlwaysCreates(_, _, _)
DescendAlwaysCreates(h, acc, path) ==
    IF path = << >> THEN [heap |-> h, obj |-> acc, threw |-> FALSE]
    ELSE IF ~IsRef(acc) THEN [heap |-> h, obj |-> acc, threw |-> TRUE]
    ELSE LET key == Head(path)
             h1 == Append([h EXCEPT ![acc.id] = SetProp(@, key, Ref(Len(h) + 1))],
                          EmptyObject)
         IN  DescendAlwaysCreates(h1, h1[acc.id][key], Tail(path))

\* The body of path.reduce: `if (!(key in acc)) acc[key] = {}; return acc[key]`,
\* over the keys of `path`, starting at acc.  `key in acc` throws a TypeError
\* when acc is not an object.  A missing container is allocated at the next
\* free address and stored IN PLACE in the object acc refers to.
RECURSIVE Descend(_, _, _)
Descend(h, acc, path) ==
    IF path = << >> THEN [heap |-> h, obj |-> acc, threw |-> FALSE]
    ELSE IF ~IsRef(acc) THEN [heap |-> h, obj |-> acc, threw |-> TRUE]
    ELSE LET key == Head(path)
             h1 == IF Has(h[acc.id], key)
                       THEN h
                       ELSE Append([h EXCEPT ![acc.id] = SetProp(@, key, Ref(Len(h) + 1))],
                                   EmptyObject)
         IN  Descend(h1, h1[acc.id][key], Tail(path))

\* const newModel = { ...oldModel }: a new object with the same top-level
\* properties; nested objects are shared with oldModel.
ShallowClone(h, id) == Append(h, h[id])

\* The updater passed to setModel, up to the leaf assignment:
\*   const newModel = { ...oldModel };
\*   const obj = path.reduce(..., newModel);
\*   obj[fieldName] = value;
\* The module is strict-mode code, so assigning a property on a primitive
\* throws as well.
WriteModel(h, oldModel, path, fieldName, value) ==
    LET h1 == ShallowClone(h, oldModel)
        newModel == Len(h1)
        d == Descend(h1, Ref(newModel), path)
    IN  IF d.threw \/ ~IsRef(d.obj)
            THEN [heap |-> d.heap, newModel |-> newModel, threw |-> TRUE]
            ELSE [heap |-> [d.heap EXCEPT ![d.obj.id] = SetProp(@, fieldName, value)],
                  newModel |-> newModel, threw |-> FALSE]

\* UpdateErrors whose `error === null` branch empties the Map.
UpdateErrorsClearsAll(h, oldErrors, field, error) ==
    LET newErrors == IF error = Null
                         THEN EmptyObject
                         ELSE SetProp(h[oldErrors], field.id, error)
    IN  [heap |-> Append(h, newErrors), errors |-> Len(h) + 1]

\* UpdateErrors with the `error === null` branch lost: an entry, once set, stays.
UpdateErrorsNeverCleared(h, oldErrors, field, error) ==
    LET newErrors == IF error = Null
                         THEN h[oldErrors]
                         ELSE SetProp(h[oldErrors], field.id, error)
    IN  [heap |-> Append(h, newErrors), errors |-> Len(h) + 1]

\* The updater passed to setErrors: a copy of the old Map with the field's
\* entry deleted (error === null) or set.
UpdateErrors(h, oldErrors, field, error) ==
    LET newErrors == IF error = Null
                         THEN DelProp(h[oldErrors], field.id)
                         ELSE SetProp(h[oldErrors], field.id, error)
    IN  [heap |-> Append(h, newErrors), errors |-> Len(h) + 1]

\* afterPropertyChange(newModel, field, value): the hooks the application
\* passes.  "log" only reads its arguments; "stamp" sets newModel.touched.
CallAfterPropertyChange(hook, h, newModel, field, value) ==
    IF hook.name = "stamp"
        THEN [h EXCEPT ![newModel] = SetProp(@, "touched", Bool(TRUE))]
        ELSE h

\* Setter with the write skipped when the validator reports an error: the model
\* state stays the old object.
SetterBlockedByValidation(field, value, h, oldModel, oldErrors, hook) ==
    LET p == DerivePath(field)
        validated == field.validate # Undefined
        error == IF validated THEN CallValidate(field, value) ELSE Undefined
        e == IF validated
                 THEN UpdateErrors(h, oldErrors, field, error)
                 ELSE [heap |-> h, errors |-> oldErrors]
        rejected == validated /\ error # Null
        w == IF rejected
                 THEN [heap |-> e.heap, newModel |-> oldModel, threw |-> FALSE]
                 ELSE WriteModel(e.heap, oldModel, p.path, p.fieldName, value)
    IN  [heap |-> w.heap,
         model |-> w.newModel,
         errors |-> e.errors,
         threw |-> w.threw,
         error |-> error,
         validateCalls |-> IF validated THEN <<[field |-> field.id, value |-> value]>> ELSE << >>,
         hookCalls |-> << >>,
         order |-> << >>]

\* Setter with the hook handed the old model object instead of the new one.
SetterHookOnOldModel(field, value, h, oldModel, oldErrors, hook) ==
    LET p == DerivePath(field)
        validated == field.validate # Undefined
        error == IF validated THEN CallValidate(field, value) ELSE Undefined
        e == IF validated
                 THEN UpdateErrors(h, oldErrors, field, error)
                 ELSE [heap |-> h, errors |-> oldErrors]
        w == WriteModel(e.heap, oldModel, p.path, p.fieldName, value)
        hooked == ~w.threw /\ hook # Undefined
    IN  [heap |-> IF hooked
                      THEN CallAfterPropertyChange(hook, w.heap, oldModel, field, value)
                      ELSE w.heap,
         model |-> w.newModel,
         errors |-> e.errors,
         threw |-> w.threw,
         error |-> error,
         validateCalls |-> IF validated THEN <<[field |-> field.id, value |-> value]>> ELSE << >>,
         hookCalls |-> IF hooked
                           THEN <<[model |-> oldModel, field |-> field.id, value |-> value,
                                   seen |-> ReadChain(w.heap, Ref(oldModel),
                                                      Append(p.path, p.fieldName)).v]>>
                           ELSE << >>,
         order |-> (IF validated THEN <<"validate">> ELSE << >>)
                   \o <<"write">>
                   \o (IF hooked THEN <<"afterPropertyChange">> ELSE << >>)
                   \o (IF w.threw THEN << >> ELSE <<"commit">>)]

\* The closure stored in `setters` for `field`, applied to `value` with the
\* state (heap, model, errors) the two updaters see.  `order` is the order of
\* the validator call, the leaf assignment, the hook call and the updater's
\* return; `seen` is what the hook finds at the written location.
Setter(field, value, h, oldModel, oldErrors, hook) ==
    LET p == DerivePath(field)
        validated == field.validate # Undefined
        error == IF validated THEN CallValidate(field, value) ELSE Undefined
        e == IF validated
                 THEN UpdateErrors(h, oldErrors, field, error)
                 ELSE [heap |-> h, errors |-> oldErrors]
        w == WriteModel(e.heap, oldModel, p.path, p.fieldName, value)
        hooked == ~w.threw /\ hook # Undefined
    IN  [heap |-> IF hooked
                      THEN CallAfterPropertyChange(hook, w.heap, w.newModel, field, value)
                      ELSE w.heap,
         model |-> w.newModel,
         errors |-> e.errors,
         threw |-> w.threw,
         error |-> error,
         validateCalls |-> IF validated THEN <<[field |-> field.id, value |-> value]>> ELSE << >>,
         hookCalls |-> IF hooked
                           THEN <<[model |-> w.newModel, field |-> field.id, value |-> value,
                                   seen |-> ReadChain(w.heap, Ref(w.newModel),
                                                      Append(p.path, p.fieldName)).v]>>
                           ELSE << >>,
         order |-> (IF validated THEN <<"validate">> ELSE << >>)
                   \o <<"write">>
                   \o (IF hooked THEN <<"afterPropertyChange">> ELSE << >>)
                   \o (IF w.threw THEN << >> ELSE <<"commit">>)]

\* The Map of setters from each field's derivation, or the throw of the first
\* derivation that throws.
SettersOf(derived) ==
    [threw |-> \E id \in DOMAIN derived : derived[id].threw,
     map |-> [id \in DOMAIN derived |->
                [path |-> derived[id].path, fieldName |-> derived[id].fieldName]]]

\* The useMemo body: a Map from every field of every section to its setter
\* (the path and leaf name the closure holds).  It throws when a path
\* derivation throws.
BuildSetters(secs) ==
    LET fields == Flatten(secs)
    IN  SettersOf([id \in {fields[i].id : i \in 1..Len(fields)} |->
                      DerivePath(FieldById(id))])

\* setValue with a setter made on the spot for a field the Map does not have.
setValueBuildsSetter(field, value, setterMap, h, oldModel, oldErrors, hook) ==
    Setter(field, value, h, oldModel, oldErrors, hook) @@ [thrown |-> Undefined]

\* setValue(field, value): `throw "Field not found"` when the Map has no
\* setter for the field, else the setter.  `thrown` is what the caller of
\* onChange gets thrown at it.
setValue(field, value, setterMap, h, oldModel, oldErrors, hook) ==
    IF field.id \notin DOMAIN setterMap
        THEN [heap |-> h, model |-> oldModel, errors |-> oldErrors, threw |-> FALSE,
              error |-> Undefined, validateCalls |-> << >>, hookCalls |-> << >>,
              order |-> << >>, thrown |-> Str("Field not found")]
        ELSE Setter(field, value, h, oldModel, oldErrors, hook) @@ [thrown |-> Undefined]

\* -------------------------------------------------------------- submit
\* handleSubmit without the errors.size test: onSubmit is called whatever the
\* error map holds.
handleSubmitUngated(h, errs, mdl, submitProp) ==
    [stopPropagation |-> FALSE,
     preventDefault |-> FALSE,
     onSubmitCalls |-> IF submitProp # Undefined
                           THEN <<[model |-> mdl, event |-> "e"]>>
                           ELSE << >>,
     validateCalls |-> << >>]

\* handleSubmit preceded by a validation pass over the current values.
handleSubmitRevalidating(h, errs, mdl, submitProp) ==
    LET failing == {i \in 1..Len(AllFields) :
                       /\ AllFields[i].validate # Undefined
                       /\ CallValidate(AllFields[i], FieldValue(AllFields[i], h, mdl).v) # Null}
        blocked == Cardinality(DOMAIN h[errs]) # 0 \/ failing # {}
    IN  [stopPropagation |-> blocked,
         preventDefault |-> blocked,
         onSubmitCalls |-> IF ~blocked /\ submitProp # Undefined
                               THEN <<[model |-> mdl, event |-> "e"]>>
                               ELSE << >>,
         validateCalls |-> <<[field |-> FirstName.id,
                              value |-> FieldValue(FirstName, h, mdl).v]>>]

\* handleSubmit(e): what the handler does to the event and which callbacks it
\* calls.  errors.size !== 0 suppresses the event; otherwise onSubmit, when the
\* prop is there, is called with the model state and the event.  No validator
\* is called.
handleSubmit(h, errs, mdl, submitProp) ==
    LET blocked == Cardinality(DOMAIN h[errs]) # 0
    IN  [stopPropagation |-> blocked,
         preventDefault |-> blocked,
         onSubmitCalls |-> IF ~blocked /\ submitProp # Undefined
                               THEN <<[model |-> mdl, event |-> "e"]>>
                               ELSE << >>,
         validateCalls |-> << >>]

\* -------------------------------------------------------------- render
\* The thunks the sections use; they read the application's own state `env`.
CallThunk(fn, env) ==
    CASE fn.name = "showDetails" -> Bool(env.showDetails)
      [] fn.name = "isLocked" -> Bool(~env.showDetails)
      [] fn.name = "ageLabel" -> Str("Age")
      [] OTHER -> Undefined

\* invokeMaybeCallable(value)
invokeMaybeCallable(value, env) ==
    IF value = Undefined THEN Undefined
    ELSE IF value.k = "function" THEN CallThunk(value, env)
    ELSE value

\* RenderField testing `field.visible === false` without invoking it: a thunk
\* never hides its field.
RenderFieldThunkNotInvoked(field, j, h, controls, initialModel, model, errors, env) ==
    IF field.visible = Bool(FALSE)
        THEN [threw |-> FALSE, node |-> Null]
        ELSE LET initialValue == FieldValue(field, h, initialModel)
                 currentValue == FieldValue(field, h, model)
                 Control == GetProp(h[controls], field.type)
             IN  [threw |-> initialValue.threw \/ currentValue.threw \/ Control = Undefined,
                  node |-> [k |-> "element", type |-> Control, key |-> j,
                            field |-> field.id, label |-> Str(""),
                            value |-> currentValue.v, readonly |-> Bool(FALSE),
                            isModified |-> initialValue.v # currentValue.v,
                            error |-> GetProp(h[errors], field.id)]]

\* The callback of section.fields.map: null for a field that is not visible,
\* else the element <Control {...field} key label value onChange readonly
\* isModified error />.  `threw` stands for the TypeError of an accessor
\* reading through undefined and for React rejecting an undefined Control.
RenderField(field, j, h, controls, initialModel, model, errors, env) ==
    IF invokeMaybeCallable(field.visible, env) = Bool(FALSE)
        THEN [threw |-> FALSE, node |-> Null]
        ELSE LET initialValue == FieldValue(field, h, initialModel)
                 currentValue == FieldValue(field, h, model)
                 Control == GetProp(h[controls], field.type)
                 ro == invokeMaybeCallable(field.readonly, env)
             IN  IF initialValue.threw \/ currentValue.threw \/ Control = Undefined
                     THEN [threw |-> TRUE, node |-> Null]
                     ELSE [threw |-> FALSE,
                           node |-> [k |-> "element",
                                     type |-> Control,
                                     key |-> j,
                                     field |-> field.id,
                                     label |-> IF field.label.k = "function"
                                                   THEN CallThunk(field.label, env)
                                                   ELSE field.label,
                                     value |-> currentValue.v,
                                     readonly |-> IF ro = Undefined THEN Bool(FALSE) ELSE ro,
                                     isModified |-> initialValue.v # currentValue.v,
                                     error |-> GetProp(h[errors], field.id)]]

\* The children of one section header.
RenderSection(section, h, controls, initialModel, model, errors, env) ==
    [j \in 1..Len(section.fields) |->
        RenderField(section.fields[j], j, h, controls, initialModel, model, errors, env)]

\* The <form> the component returns: one block per section of `secs`, the
\* array createForm closed over, as it is now.
RenderForm(secs, h, controls, initialModel, model, errors, env) ==
    LET blocks == [i \in 1..Len(secs) |->
                      RenderSection(secs[i], h, controls, initialModel, model, errors, env)]
    IN  [threw |-> \E i \in 1..Len(blocks) : \E j \in 1..Len(blocks[i]) : blocks[i][j].threw,
         sections |-> [i \in 1..Len(blocks) |->
                          [title |-> secs[i].title,
                           children |-> [j \in 1..Len(blocks[i]) |-> blocks[i][j].node]]]]

\* The elements of a rendered form that belong to field `id`.
ControlsOf(tree, id) ==
    UNION {{<<i, j>> : j \in {n \in 1..Len(tree[i].children) :
                                 /\ tree[i].children[n] # Null
                                 /\ tree[i].children[n].field = id}} :
           i \in 1..Len(tree)}

\* ------------------------------------------------------------- builder
\* registerControl that keeps the component a tag was first registered with.
registerControlKeepsFirst(h, controls, type, component) ==
    IF Has(h[controls], type)
        THEN h
        ELSE [h EXCEPT ![controls] = SetProp(@, type, component)]

\* registerControl: this.controls[type] = component, on the builder's own
\* controls object.
registerControl(h, controls, type, component) ==
    [h EXCEPT ![controls] = SetProp(@, type, component)]

\* createForm: `const controls = this.controls`, the value the returned Form
\* closes over.
CaptureControls(controls) == controls

\* --------------------------------------------------------------- state
VARIABLES
    heap,                \* the object heap: address -> object
    builderControls,     \* FormBuilder.controls (an address)
    registers,           \* registerControl calls so far
    status,              \* "building" | "created" | "mounted" | "crashed"
    formControls,        \* the `controls` the Form closes over (an address)
    createdWith,         \* history: the registry's contents when createForm ran
    sections,            \* the `sections` array the Form closes over, as it is now
    initialModel,        \* the `model` prop of the last render (an address)
    mountModel,          \* history: the `model` prop of the first render
    onSubmit,            \* the onSubmit prop, or Undefined
    afterPropertyChange, \* the afterPropertyChange prop, or Undefined
    model,               \* useState: the live model (an address)
    errors,              \* useState: the error Map (an address)
    setters,             \* useMemo: field id -> the setter's path and leaf name
    env,                 \* the application state the thunks read
    rendered,            \* the section blocks of the last render
    edits,               \* onChange events so far
    written,             \* history: field id -> the last value its onChange was given
    last                 \* the last operation and what it was seen to do

vars == <<heap, builderControls, registers, status, formControls, createdWith,
          sections, initialModel, mountModel, onSubmit, afterPropertyChange, model,
          errors, setters, env, rendered, edits, written, last>>

propVars == <<initialModel, onSubmit, afterPropertyChange>>

\* What createForm and the first render fix.
createdVars == <<builderControls, registers, formControls, createdWith, mountModel, setters>>

NoOp ==
    [op |-> "none", field |-> "", value |-> Undefined, error |-> Undefined,
     prevError |-> Undefined,
     type |-> "", component |-> Undefined, replaced |-> Undefined,
     validateCalls |-> << >>, hookCalls |-> << >>, onSubmitCalls |-> << >>,
     order |-> << >>,
     stopPropagation |-> FALSE, preventDefault |-> FALSE, threw |-> FALSE,
     settersThrew |-> FALSE, thrown |-> Undefined]

\* The components an application registers, and the tags it registers them under.
Components == {Fn("TextComponent"), Fn("NumberComponent")}
Tags == {"text", "number"}

\* The values a control of each tag hands to onChange.
ControlValues(type) ==
    IF type = "number" THEN {Num(0), Num(30)} ELSE {Str(""), Str("Ann")}

\* The objects of a model `{firstName, age, a: {b: ""}, c: {d: "x"}}` laid out
\* from address base + 1.
ModelObjects(base, firstName, age) ==
    << [firstName |-> Str(firstName), age |-> Num(age),
        a |-> Ref(base + 2), c |-> Ref(base + 3)],
       [b |-> Str("")],
       [d |-> Str("x")] >>

\* The props an application mounts the form with.
PropsChoices ==
    { [firstName |-> "", age |-> 0,
       onSubmit |-> Fn("onSubmit"), afterPropertyChange |-> Fn("log")],
      [firstName |-> "Bob", age |-> 30,
       onSubmit |-> Fn("onSubmit"), afterPropertyChange |-> Fn("stamp")],
      [firstName |-> "", age |-> 0,
       onSubmit |-> Undefined, afterPropertyChange |-> Undefined] }

\* The application's two model objects: the one it mounts the form with, and
\* another one it may pass as the `model` prop later.
AppModels(base, props) ==
    ModelObjects(base, props.firstName, props.age)
        \o ModelObjects(base + Len(ModelObjects(base, props.firstName, props.age)),
                        "Zed", props.age)

\* The address of the application's other model object.
OtherModel(mounted) == mounted + Len(ModelObjects(mounted, "", 0))

\* The first render of Form: useState(initialModel), useState(new Map()),
\* the useMemo that derives every field's path, and the render itself.
FirstRenderOf(h2, root, errs, memo, r) ==
    [heap |-> h2, initialModel |-> root, model |-> root, errors |-> errs,
     setters |-> IF memo.threw THEN << >> ELSE memo.map,
     settersThrew |-> memo.threw,
     threw |-> memo.threw \/ r.threw, sections |-> r.sections]

FirstRender(secs, h, controls, props, e) ==
    FirstRenderOf(Append(h \o AppModels(Len(h), props), EmptyObject),
                  Len(h) + 1,
                  Len(h) + Len(AppModels(Len(h), props)) + 1,
                  BuildSetters(secs),
                  RenderForm(secs, Append(h \o AppModels(Len(h), props), EmptyObject),
                             controls, Len(h) + 1, Len(h) + 1,
                             Len(h) + Len(AppModels(Len(h), props)) + 1, e))

\* The builder: FormBuilder.withDefaultSection(), nothing registered.
InitBuilder ==
    /\ heap = <<EmptyObject>>
    /\ builderControls = 1
    /\ registers = 0
    /\ status = "building"
    /\ formControls = 0
    /\ createdWith = EmptyObject
    /\ sections = << >>
    /\ initialModel = 0
    /\ mountModel = 0
    /\ onSubmit = Undefined
    /\ afterPropertyChange = Undefined
    /\ model = 0
    /\ errors = 0
    /\ setters = << >>
    /\ env = [showDetails |-> TRUE]
    /\ rendered = << >>
    /\ edits = 0
    /\ written = << >>
    /\ last = NoOp

\* The registry of demo/src/App.tsx: text and number registered.
DemoControls == [text |-> Fn("TextComponent"), number |-> Fn("NumberComponent")]

\* The form runtime: a form created from the demo's registry and mounted.
InitMounted(m, props, e) ==
            /\ heap = m.heap
            /\ builderControls = 1
            /\ registers = 2
            /\ status = "mounted"
            /\ formControls = CaptureControls(1)
            /\ createdWith = DemoControls
            /\ sections = Sections
            /\ initialModel = m.initialModel
            /\ mountModel = m.initialModel
            /\ onSubmit = props.onSubmit
            /\ afterPropertyChange = props.afterPropertyChange
            /\ model = m.model
            /\ errors = m.errors
            /\ setters = m.setters
            /\ env = e
            /\ rendered = m.sections
            /\ edits = 0
            /\ written = << >>
            /\ last = [NoOp EXCEPT !.op = "mount"]

Init ==
    \E props \in PropsChoices, show \in BOOLEAN :
        InitMounted(FirstRender(Sections, <<DemoControls>>, 1, props, [showDetails |-> show]),
                    props, [showDetails |-> show])

\* ------------------------------------------------------------- actions
\* builder.registerControl(type, component)
RegisterControl(type, component) ==
    /\ registers < MaxRegister
    /\ heap' = registerControl(heap, builderControls, type, component)
    /\ registers' = registers + 1
    /\ last' = [NoOp EXCEPT !.op = "registerControl", !.type = type,
                            !.component = component,
                            !.replaced = GetProp(heap[builderControls], type)]
    /\ UNCHANGED <<builderControls, status, formControls, createdWith, sections,
                   mountModel, setters, propVars, model, errors, env, rendered,
                   edits, written>>

\* builder.createForm(sections)
CreateForm(secs) ==
    /\ status = "building"
    /\ status' = "created"
    /\ formControls' = CaptureControls(builderControls)
    /\ createdWith' = heap[builderControls]
    /\ sections' = secs
    /\ last' = [NoOp EXCEPT !.op = "createForm"]
    /\ UNCHANGED <<heap, builderControls, registers, mountModel, setters, propVars,
                   model, errors, env, rendered, edits, written>>

\* <Form model=... onSubmit=... afterPropertyChange=... /> mounts.
MountCommit(m) ==
    /\ heap' = m.heap
    /\ initialModel' = m.initialModel
    /\ mountModel' = m.initialModel
    /\ model' = m.model
    /\ errors' = m.errors
    /\ setters' = m.setters
    /\ status' = IF m.threw THEN "crashed" ELSE "mounted"
    /\ rendered' = IF m.threw THEN << >> ELSE m.sections
    /\ last' = [NoOp EXCEPT !.op = "mount", !.threw = m.threw,
                            !.settersThrew = m.settersThrew]

Mount(props) ==
    /\ status = "created"
    /\ MountCommit(FirstRender(sections, heap, formControls, props, env))
    /\ onSubmit' = props.onSubmit
    /\ afterPropertyChange' = props.afterPropertyChange
    /\ UNCHANGED <<builderControls, registers, formControls, createdWith, sections,
                   env, edits, written>>

\* What a render leaves: the blocks it returned, or the unmounted form when
\* it threw.
RenderCommit(r, entry) ==
    /\ status' = IF r.threw THEN "crashed" ELSE "mounted"
    /\ rendered' = IF r.threw THEN << >> ELSE r.sections
    /\ last' = [entry EXCEPT !.threw = r.threw]

\* The application re-renders the form with the same props after its own
\* state (what the thunks read) changed.
Rerender(show) ==
    /\ status = "mounted"
    /\ env' = [showDetails |-> show]
    /\ RenderCommit(RenderForm(sections, heap, formControls, initialModel, model, errors, env'),
                    [NoOp EXCEPT !.op = "render"])
    /\ UNCHANGED <<heap, createdVars, sections, propVars, model, errors, edits, written>>

\* The application re-renders the form with another object as the `model` prop.
ChangeModelProp(target) ==
    /\ status = "mounted"
    /\ target # initialModel
    /\ initialModel' = target
    /\ RenderCommit(RenderForm(sections, heap, formControls, target, model, errors, env),
                    [NoOp EXCEPT !.op = "props"])
    /\ UNCHANGED <<heap, createdVars, sections, onSubmit, afterPropertyChange, model,
                   errors, env, edits, written>>

\* The application pushes a descriptor onto the first section of the array it
\* gave to createForm, and re-renders the form.
AddField(field) ==
    /\ status = "mounted"
    /\ \A i \in 1..Len(Flatten(sections)) : Flatten(sections)[i].id # field.id
    /\ sections' = PushField(sections, field)
    /\ RenderCommit(RenderForm(sections', heap, formControls, initialModel, model, errors, env),
                    [NoOp EXCEPT !.op = "push", !.field = field.id])
    /\ UNCHANGED <<heap, createdVars, propVars, model, errors, env, edits, written>>

\* A rendered control calls onChange(value): setValue(field, value), the
\* field's setter with both state updaters, and the render that follows.  When
\* setValue throws, no state is set and nothing renders.
EditCommit(field, value, s, r) ==
    /\ heap' = s.heap
    /\ model' = IF s.threw THEN model ELSE s.model
    /\ errors' = IF s.threw THEN errors ELSE s.errors
    /\ status' = IF s.threw \/ r.threw THEN "crashed" ELSE "mounted"
    /\ rendered' = IF s.thrown # Undefined THEN rendered
                   ELSE IF s.threw \/ r.threw THEN << >> ELSE r.sections
    /\ last' = [NoOp EXCEPT !.op = "edit", !.field = field.id, !.value = value,
                            !.error = s.error,
                            !.prevError = GetProp(heap[errors], field.id),
                            !.validateCalls = s.validateCalls,
                            !.hookCalls = s.hookCalls, !.order = s.order,
                            !.threw = s.threw \/ r.threw, !.thrown = s.thrown]

EditRender(field, value, s) ==
    EditCommit(field, value, s,
               RenderForm(sections, s.heap, formControls, initialModel, s.model,
                          s.errors, env))

Edit(field, value) ==
    /\ status = "mounted"
    /\ edits < MaxEdits
    /\ ControlsOf(rendered, field.id) # {}
    /\ EditRender(field, value,
                  setValue(field, value, setters, heap, model, errors, afterPropertyChange))
    /\ edits' = edits + 1
    /\ written' = SetProp(written, field.id, value)
    /\ UNCHANGED <<createdVars, sections, propVars, env>>

\* Submit with a blocked submission resetting the error Map.
SubmitClearsErrors ==
    /\ status = "mounted"
    /\ LET r == handleSubmit(heap, errors, model, onSubmit)
       IN  /\ last' = [NoOp EXCEPT
                          !.op = "submit",
                          !.stopPropagation = r.stopPropagation,
                          !.preventDefault = r.preventDefault,
                          !.onSubmitCalls = r.onSubmitCalls,
                          !.validateCalls = r.validateCalls]
           /\ heap' = IF r.preventDefault THEN Append(heap, EmptyObject) ELSE heap
           /\ errors' = IF r.preventDefault THEN Len(heap) + 1 ELSE errors
    /\ UNCHANGED <<createdVars, status, sections, propVars, model, env,
                   rendered, edits, written>>

\* The form receives a submit event: handleSubmit(e) of the last render.
Submit ==
    /\ status = "mounted"
    /\ LET r == handleSubmit(heap, errors, model, onSubmit)
       IN  last' = [NoOp EXCEPT
                       !.op = "submit",
                       !.stopPropagation = r.stopPropagation,
                       !.preventDefault = r.preventDefault,
                       !.onSubmitCalls = r.onSubmitCalls,
                       !.validateCalls = r.validateCalls]
    /\ UNCHANGED <<heap, createdVars, status, sections, propVars, model, errors, env,
                   rendered, edits, written>>

EditSome ==
    \E i \in 1..Len(Flatten(sections)) :
        \E value \in ControlValues(Flatten(sections)[i].type) :
            Edit(Flatten(sections)[i], value)

RerenderSome == \E show \in BOOLEAN : Rerender(show)

RegisterSome == \E type \in Tags, component \in Components : RegisterControl(type, component)

CreateFormSome == \E secs \in SectionsChoices : CreateForm(secs)

MountSome == \E props \in PropsChoices : Mount(props)

ChangeModelPropSome == \E target \in {mountModel, OtherModel(mountModel)} : ChangeModelProp(target)

\* The form runtime of one mounted form.
Next == EditSome \/ Submit \/ RerenderSome

Spec == Init /\ [][Next]_vars

\* The form runtime under an application that also changes the `model` prop.
NextProps == EditSome \/ Submit \/ RerenderSome \/ ChangeModelPropSome

SpecProps == Init /\ [][NextProps]_vars

\* The form runtime under an application that also pushes a field onto the
\* sections after the form mounted.
NextSections == EditSome \/ Submit \/ RerenderSome \/ AddField(Nickname)

SpecSections == Init /\ [][NextSections]_vars

\* The builder and the form it creates, from an empty registry.
NextBuilder == RegisterSome \/ CreateFormSome \/ MountSome \/ RerenderSome \/ Submit

SpecBuilder == InitBuilder /\ [][NextBuilder]_vars

\* ===================================================================
\* Properties
\* ===================================================================

\* The element rendered at position c = <<section, child>>.
ElementAt(c) == rendered[c[1]].children[c[2]]

\* The error Map of the current state.
ErrorMap == heap[errors]

\* `tree.p1.p2...pn = v` on a model given by its contents: ordinary property
\* assignment along an accessor's declared property chain.
RECURSIVE AssignAlong(_, _, _)
AssignAlong(tree, props, v) ==
    IF Len(props) = 1
        THEN SetProp(tree, props[1], v)
        ELSE SetProp(tree, Head(props), AssignAlong(tree[Head(props)], Tail(props), v))

\* C1: every edit of a field that has no validator leaves the form holding the
\* model that plain property assignment along the field's declared accessor
\* path (for `m => m.a.b`, assigning at a.b) gives on the model held before;
\* hence a sequence of such edits gives what the same assignments, in order,
\* give on the initial model.
C1_EditIsPlainAssignment ==
    [][(last'.op = "edit" /\ status' = "mounted"
            /\ FieldById(last'.field).validate = Undefined)
        => Deep(heap', Ref(model'))
             = AssignAlong(Deep(heap, Ref(model)), FieldById(last'.field).props,
                           last'.value)]_vars

\* C2: after an edit that sets a primitive-valued field to a value other than
\* the one it has in the initial model, the render that follows passes
\* isModified = TRUE to that field's control and isModified = FALSE to the
\* control of every field that was never edited.
C2_IsModifiedAfterEdit ==
    (status = "mounted" /\ last.op = "edit"
        /\ last.value # FieldValue(FieldById(last.field), heap, initialModel).v)
    => /\ \A c \in ControlsOf(rendered, last.field) : ElementAt(c).isModified
       /\ \A g \in FieldIds \ DOMAIN written :
             \A c \in ControlsOf(rendered, g) : ~ElementAt(c).isModified

\* C3: right after an edit of a field that has a validator, the error map
\* holds the field mapped to the validator's result when that result is a
\* string, and holds no entry for the field when the result is null (whatever
\* entry an earlier edit left).
C3_ErrorEntryFollowsValidator ==
    (status = "mounted" /\ last.op = "edit"
        /\ FieldById(last.field).validate # Undefined)
    => LET result == CallValidate(FieldById(last.field), last.value)
       IN  IF result = Null
               THEN ~Has(ErrorMap, last.field)
               ELSE Has(ErrorMap, last.field) /\ ErrorMap[last.field] = result

\* An edit with a null validator result of a field whose earlier edit had left
\* an error entry: the entry is gone.
C3_Witness ==
    /\ status = "mounted"
    /\ last.op = "edit"
    /\ last.prevError = Str("required")
    /\ CallValidate(FieldById(last.field), last.value) = Null
    /\ ~Has(ErrorMap, last.field)

\* C4: a submit event handled while the error map is non-empty calls onSubmit
\* not at all and suppresses the event (stopPropagation and preventDefault);
\* one handled while the error map is empty does not suppress the event and,
\* the form having an onSubmit prop, calls it exactly once with the form's
\* current model and the event.
C4_SubmitGatedByErrors ==
    (status = "mounted" /\ last.op = "submit")
    => IF DOMAIN ErrorMap # {}
           THEN /\ last.onSubmitCalls = << >>
                /\ last.stopPropagation
                /\ last.preventDefault
           ELSE /\ ~last.stopPropagation
                /\ ~last.preventDefault
                /\ onSubmit # Undefined
                      => last.onSubmitCalls = <<[model |-> model, event |-> "e"]>>
                /\ onSubmit = Undefined => last.onSubmitCalls = << >>

\* A submit event blocked by an error entry, on a form that has an onSubmit prop.
C4_Witness ==
    /\ status = "mounted"
    /\ last.op = "submit"
    /\ onSubmit # Undefined
    /\ DOMAIN ErrorMap # {}
    /\ last.stopPropagation /\ last.preventDefault
    /\ last.onSubmitCalls = << >>

\* C5: a form returned by createForm resolves, at every render, each field's
\* type tag to the component that tag had in the registry when createForm was
\* called, whatever registerControl calls the builder received afterwards.
C5_FormUsesRegistryAtCreate ==
    status = "mounted"
    => \A i \in 1..Len(rendered) : \A j \in 1..Len(rendered[i].children) :
          rendered[i].children[j] # Null
          => rendered[i].children[j].type
               = GetProp(createdWith, FieldById(rendered[i].children[j].field).type)

\* C6: an edit whose validator result is an error leaves the form holding the
\* same model contents as the same edit through a descriptor with the same
\* accessor and no validator; the value is at the written location, the model
\* state is a new object, and the error map gains exactly the field's entry.
C6_WriteDespiteValidation ==
    [][(last'.op = "edit" /\ status' = "mounted"
            /\ FieldById(last'.field).validate # Undefined
            /\ CallValidate(FieldById(last'.field), last'.value) # Null)
        => LET f == FieldById(last'.field)
               plain == Setter([f EXCEPT !.validate = Undefined], last'.value,
                               heap, model, errors, afterPropertyChange)
               p == DerivePath(f)
           IN  /\ Deep(heap', Ref(model')) = Deep(plain.heap, Ref(plain.model))
               /\ model' # model
               /\ ReadChain(heap', Ref(model'), Append(p.path, p.fieldName)).v = last'.value
               /\ heap'[errors'] = SetProp(heap[errors], f.id,
                                           CallValidate(f, last'.value))]_vars

\* An edit that failed validation and whose value is in the model all the same.
C6_Witness ==
    /\ status = "mounted"
    /\ last.op = "edit"
    /\ last.field = FirstName.id
    /\ last.value = Str("")
    /\ ErrorMap = [firstName |-> Str("required")]
    /\ ReadChain(heap, Ref(model), <<"model", "firstName">>).v = Str("")

\* C7: an edit leaves the object that was the model state before it, with every
\* object reachable from it, and the Map that was the error state before it,
\* with the contents they had before the edit.
C7_PreviousStateUntouched ==
    [][last'.op = "edit"
        => /\ Deep(heap', Ref(model)) = Deep(heap, Ref(model))
           /\ heap'[errors] = heap[errors]]_vars

\* The containers a setter walks through from the model state along `path`.
RECURSIVE ContainersOn(_, _, _)
ContainersOn(h, v, path) ==
    IF path = << >> \/ ~IsRef(v) \/ ~Has(h[v.id], Head(path))
        THEN {}
        ELSE LET next == h[v.id][Head(path)]
             IN  (IF IsRef(next) THEN {next.id} ELSE {})
                    \cup ContainersOn(h, next, Tail(path))

\* C8: for the fields a.b and c.d, after an edit of one of them the value last
\* written for the other is still what the other's accessor reads, the edited
\* field reads the value just written, and the two setters' paths go through
\* no common container.
C8_DisjointPathsIndependent ==
    \A other \in {AB.id, CD.id} :
        (status = "mounted" /\ last.op = "edit"
            /\ last.field \in {AB.id, CD.id} \ {other}
            /\ other \in DOMAIN written)
        => /\ FieldValue(FieldById(other), heap, model).v = written[other]
           /\ FieldValue(FieldById(last.field), heap, model).v = last.value
           /\ ContainersOn(heap, Ref(model), DerivePath(AB).path)
                \cap ContainersOn(heap, Ref(model), DerivePath(CD).path) = {}

\* C9: in every render, a field whose `visible` (literal or thunk) resolves to
\* false has no control in the rendered field list (its place holds null),
\* whatever its value and its error entry; a field whose `visible` is unset or
\* resolves to true has exactly one control.
C9_VisibleDecidesControl ==
    status = "mounted"
    => \A i \in 1..Len(Sections) : \A j \in 1..Len(Sections[i].fields) :
          LET f == Sections[i].fields[j]
              hidden == IF f.visible = Undefined THEN FALSE
                        ELSE IF f.visible.k = "function"
                            THEN CallThunk(f.visible, env) = Bool(FALSE)
                            ELSE f.visible = Bool(FALSE)
          IN  IF hidden
                  THEN /\ rendered[i].children[j] = Null
                       /\ ControlsOf(rendered, f.id) = {}
                  ELSE /\ rendered[i].children[j] # Null
                       /\ ControlsOf(rendered, f.id) = {<<i, j>>}

\* A field hidden by its thunk while the error map holds an entry for it.
C9_Witness ==
    /\ status = "mounted"
    /\ ~env.showDetails
    /\ Has(ErrorMap, CD.id)
    /\ ControlsOf(rendered, CD.id) = {}
    /\ ControlsOf(rendered, Secret.id) = {}
    /\ Cardinality(ControlsOf(rendered, AB.id)) = 1

\* C10: a submit event calls no validator, and on a form no field of which was
\* edited it is not suppressed and calls onSubmit (the prop being there) with
\* the current model, also when a validator would reject a current value.
C10_SubmitDoesNotValidate ==
    (status = "mounted" /\ last.op = "submit")
    => /\ last.validateCalls = << >>
       /\ edits = 0
             => /\ ~last.stopPropagation /\ ~last.preventDefault
                /\ onSubmit # Undefined
                      => last.onSubmitCalls = <<[model |-> model, event |-> "e"]>>

\* A submit of an unedited form whose firstName the validator would reject.
C10_Witness ==
    /\ status = "mounted"
    /\ last.op = "submit"
    /\ edits = 0
    /\ CallValidate(FirstName, FieldValue(FirstName, heap, model).v) = Str("required")
    /\ Len(last.onSubmitCalls) = 1

\* C11: the form compares against the model it was mounted with.  When the
\* application re-renders the form with another object as the `model` prop,
\* the live model stays as it is and every rendered control's isModified is
\* still the comparison of the field's value in the mount model with its
\* value in the live model.
C11_InitialSnapshotFixedAtMount ==
    [][(last'.op = "props" /\ status' = "mounted")
        => /\ model' = model
           /\ heap' = heap
           /\ \A f \in FieldIds :
                 \A c \in ControlsOf(rendered', f) :
                    rendered'[c[1]].children[c[2]].isModified
                        = (FieldValue(FieldById(f), heap', mountModel).v
                             # FieldValue(FieldById(f), heap', model').v)]_vars

\* a comes before b in seq.
Before(seq, a, b) ==
    \E i, j \in 1..Len(seq) : i < j /\ seq[i] = a /\ seq[j] = b

\* C12: with an afterPropertyChange prop, every edit calls the hook once with
\* (newModel, field, newValue); newModel already holds the value at the
\* location the setter wrote; the call comes after the validator's and before
\* the updater returns; and the model the form then has is that same newModel
\* object, with whatever the hook did to it.
C12_HookSeesCommittedModel ==
    (last.op = "edit" /\ afterPropertyChange # Undefined)
    => /\ Len(last.hookCalls) = 1
       /\ last.hookCalls[1].model = model
       /\ last.hookCalls[1].field = last.field
       /\ last.hookCalls[1].value = last.value
       /\ last.hookCalls[1].seen = last.value
       /\ Before(last.order, "write", "afterPropertyChange")
       /\ Before(last.order, "afterPropertyChange", "commit")
       /\ FieldById(last.field).validate # Undefined
             => Before(last.order, "validate", "afterPropertyChange")
       /\ afterPropertyChange.name = "stamp"
             => GetProp(heap[model], "touched") = Bool(TRUE)

\* An edit of a validated field under a hook that changes the model it is given.
C12_Witness ==
    /\ status = "mounted"
    /\ last.op = "edit"
    /\ last.field = FirstName.id
    /\ afterPropertyChange = Fn("stamp")
    /\ Len(last.hookCalls) = 1
    /\ GetProp(heap[model], "touched") = Bool(TRUE)

\* C13: the setter Map is built once, at the first render.  An onChange of a
\* field the Map has no setter for (one pushed onto the sections after mount)
\* throws the string "Field not found", leaves the model and the error Map as
\* they were, and calls neither a validator nor afterPropertyChange.
C13_UnknownFieldThrows ==
    [][/\ setters' = setters
       /\ (last'.op = "edit" /\ last'.field \notin DOMAIN setters)
            => /\ last'.thrown = Str("Field not found")
               /\ model' = model
               /\ errors' = errors
               /\ heap' = heap
               /\ last'.validateCalls = << >>
               /\ last'.hookCalls = << >>]_vars

\* An onChange of the pushed field, which has a validator, under a hook.
C13_Witness ==
    /\ status = "mounted"
    /\ last.op = "edit"
    /\ last.field = Nickname.id
    /\ Nickname.id \notin DOMAIN setters
    /\ Nickname.validate # Undefined
    /\ afterPropertyChange # Undefined
    /\ last.thrown = Str("Field not found")

\* C14: registerControl with a tag that is already registered raises nothing
\* and replaces the earlier component: after the call the registry maps the
\* tag to the component of this call, and every other tag to what it mapped
\* to before.
C14_RegisterReplaces ==
    [][last'.op = "registerControl"
        => /\ ~last'.threw
           /\ last'.thrown = Undefined
           /\ GetProp(heap'[builderControls], last'.type) = last'.component
           /\ DOMAIN heap'[builderControls]
                 = DOMAIN heap[builderControls] \cup {last'.type}
           /\ \A t \in DOMAIN heap[builderControls] \ {last'.type} :
                 heap'[builderControls][t] = heap[builderControls][t]]_vars

\* A tag registered again with another component, while another tag is
\* registered too.
C14_Witness ==
    /\ last.op = "registerControl"
    /\ last.replaced \notin {Undefined, last.component}
    /\ GetProp(heap[builderControls], last.type) = last.component
    /\ \E t \in DOMAIN heap[builderControls] : t # last.type

\* The accessor's text holds the arrow token.
HasArrow(field) ==
    \E i \in 1..Len(ValueToString(field)) : ValueToString(field)[i] = "=>"

\* The ids of the fields of the sections the form was created with.
SectionIds == {Flatten(sections)[i].id : i \in 1..Len(Flatten(sections))}

\* C15 (as stated): building the setter Map at the first render never throws,
\* whatever the accessors' texts are, a text without the arrow token included.
C15_SettersNeverThrow ==
    last.op = "mount" => (~last.settersThrew /\ DOMAIN setters = SectionIds)

\* C15: building the setter Map at the first render completes, with a path
\* and a leaf name for every field, exactly when every accessor's text holds
\* the arrow token, whatever follows the arrow (`m => m` gives the empty path
\* and the leaf "m"); when some accessor's text holds no arrow the
\* construction throws and the form does not mount.
C15_SettersThrowWithoutArrow ==
    last.op = "mount"
    => /\ last.settersThrew <=> (\E id \in SectionIds : ~HasArrow(FieldById(id)))
       /\ ~last.settersThrew => DOMAIN setters = SectionIds
       /\ last.settersThrew => (status = "crashed" /\ rendered = << >>)
       /\ (~last.settersThrew /\ Whole.id \in SectionIds)
            => setters[Whole.id] = [path |-> << >>, fieldName |-> "m"]

\* A form whose sections hold the accessor `m => m`, mounted.
C15_Witness ==
    /\ last.op = "mount"
    /\ status = "mounted"
    /\ Whole.id \in DOMAIN setters
    /\ setters[Whole.id].path = << >>

\* C16: an edit of a field changes the error Map at most at that field's
\* key: every other field's entry is the same before and after, and an edit
\* of a field without a validator leaves the Map as it is.  So the keys of
\* the error Map are always fields the setter Map holds that have a validator
\* and were edited.
C16_EditTouchesOwnErrorOnly ==
    /\ [][last'.op = "edit"
            => /\ \A g \in (DOMAIN heap[errors] \cup DOMAIN heap'[errors']) \ {last'.field} :
                     GetProp(heap'[errors'], g) = GetProp(heap[errors], g)
               /\ FieldById(last'.field).validate = Undefined
                     => (errors' = errors /\ heap'[errors'] = heap[errors])]_vars
    /\ [](status = "mounted"
            => DOMAIN heap[errors]
                   \subseteq {g \in DOMAIN setters \cap DOMAIN written :
                                 FieldById(g).validate # Undefined})

\* A valid edit of one validated field while another field's error stays.
C16_Witness ==
    /\ status = "mounted"
    /\ last.op = "edit"
    /\ last.field = CD.id
    /\ last.error = Null
    /\ GetProp(heap[errors], FirstName.id) = Str("required")

\* A submit event now would be stopped.
Blocked == handleSubmit(heap, errors, model, onSubmit).preventDefault

\* C17: a submit event changes nothing of the form's state, whether it is
\* stopped or handed to onSubmit: the model, the error Map and every object
\* are what they were.  A form whose submission is stopped therefore stays so
\* through every step that is not an edit.
C17_SubmitChangesNothing ==
    [][/\ last'.op = "submit"
            => /\ model' = model
               /\ errors' = errors
               /\ heap' = heap
               /\ rendered' = rendered
               /\ status' = status
       /\ (Blocked /\ last'.op # "edit") => Blocked']_vars

\* A stopped submission after two edits that each left an error.
C17_Witness ==
    /\ last.op = "submit"
    /\ last.preventDefault
    /\ Blocked
    /\ DOMAIN heap[errors] = {FirstName.id, CD.id}

\* The path a field's setter writes along, leaf included.
FullPath(f) == Append(setters[f].path, setters[f].fieldName)

IsPrefix(p, q) == Len(p) <= Len(q) /\ SubSeq(q, 1, Len(p)) = p

\* Neither field's full path is the other's or a prefix of it.
Independent(f, g) ==
    /\ ~IsPrefix(FullPath(f), FullPath(g))
    /\ ~IsPrefix(FullPath(g), FullPath(f))

\* The edit of f to v made on what the edit s left.
SetterAfter(s, f, v) ==
    Setter(FieldById(f), v, s.heap, s.model, s.errors, afterPropertyChange)

\* What an edit leaves: the model's contents and the error Map's.
Outcome(s) ==
    [model |-> Deep(s.heap, Ref(s.model)), errors |-> s.heap[s.errors], threw |-> s.threw]

\* The edit of f to v, then the edit of g to w, from the current state.
EditBoth(f, v, g, w) ==
    Outcome(SetterAfter(
        Setter(FieldById(f), v, heap, model, errors, afterPropertyChange), g, w))

\* C18: from every reachable state of a mounted form, and for every two
\* different fields neither of whose full paths is the other's or a prefix
\* of it, editing the first and then the second leaves the same model
\* contents and the same error Map as editing the second and then the first.
\* A submit or a render changes nothing an edit reads (the heap, the model,
\* the error Map), so the states a mount or an edit leaves carry every model
\* and error Map a reachable state has.
C18_EditsCommute ==
    (status = "mounted" /\ last.op \in {"mount", "edit"})
    => \A i \in 1..Len(Flatten(sections)), j \in 1..Len(Flatten(sections)) :
          (i < j /\ Independent(Flatten(sections)[i].id, Flatten(sections)[j].id))
          => \A v \in ControlValues(Flatten(sections)[i].type),
                w \in ControlValues(Flatten(sections)[j].type) :
                EditBoth(Flatten(sections)[i].id, v, Flatten(sections)[j].id, w)
                    = EditBoth(Flatten(sections)[j].id, w, Flatten(sections)[i].id, v)

\* After an edit, two fields that write under the same container, edited in
\* either order, leave a model that holds both values.
C18_Witness ==
    /\ status = "mounted"
    /\ last.op = "edit"
    /\ Independent(FirstName.id, Age.id)
    /\ setters[FirstName.id].path = setters[Age.id].path
    /\ ~EditBoth(Age.id, Num(30), FirstName.id, Str("Ann")).threw
    /\ EditBoth(Age.id, Num(30), FirstName.id, Str("Ann")).model
          # Deep(heap, Ref(model))
    /\ EditBoth(Age.id, Num(30), FirstName.id, Str("Ann")).model
          = EditBoth(FirstName.id, Str("Ann"), Age.id, Num(30)).model

====
